---- MODULE Spec2Model ----
(***************************************************************************)
(* dirdiff.output_file.OutputBackendFile: the backend that materialises    *)
(* directories, regular files, symbolic links and special files under a    *)
(* base directory.                                                         *)
(*                                                                         *)
(* The state is the tree under base_path (one object per location), the    *)
(* two constructor arguments' environment (preserve_owners, the process    *)
(* umask), and a record of the call that returned last.  Every call is     *)
(* synchronous and single-threaded, so each write_* method is one action.  *)
(* What the operating system may answer at each system call (a denied      *)
(* request, a failing chown, a reader that raises) is an input of the      *)
(* action, drawn from the faults that call can meet.                       *)
(***************************************************************************)
EXTENDS Integers, Sequences, FiniteSets, TLC

VARIABLES
    fs,               \* location under the base |-> the object there (Absent if none)
    preserve_owners,  \* OutputBackendFile.preserve_owners
    umask,            \* the process's file-mode creation mask
    handles,          \* OS handles the last call opened and had not closed when it returned
    last              \* the last call: operation, arguments, outcome

vars == <<fs, preserve_owners, umask, handles, last>>

---------------------------------------------------------------------------
(* stat: type bits and permission bits of a mode                           *)

S_IFIFO == 4096
S_IFCHR == 8192
S_IFDIR == 16384
S_IFBLK == 24576
S_IFREG == 32768
S_IFLNK == 40960
S_IFSOCK == 49152

\* stat.S_IFMT(mode): mode & 0o170000
S_IFMT(mode) == ((mode \div 4096) % 16) * 4096

\* stat.S_IMODE(mode): mode & 0o7777
S_IMODE(mode) == mode % 4096

\* stat.S_ISSOCK(mode)
S_ISSOCK(mode) == S_IFMT(mode) = S_IFSOCK

\* perm & ~mask over the twelve permission bits, as mkdir, open and mknod
\* apply the umask to the mode they are given
RECURSIVE MaskOut(_, _, _)
MaskOut(perm, mask, bits) ==
    IF bits = 0 THEN 0
    ELSE (IF mask % 2 = 1 THEN 0 ELSE perm % 2)
         + 2 * MaskOut(perm \div 2, mask \div 2, bits - 1)

---------------------------------------------------------------------------
(* Bounds of the model                                                     *)

\* bytes one reader.read call may return; stands for 2**16
CHUNK == 2
\* longest content a reader delivers in the copy specification
MaxLen == 5
\* symbolic links followed in one path resolution before ELOOP
MaxFollow == 2

---------------------------------------------------------------------------
(* Paths                                                                   *)

\* OutputBackendFile.base_path, as its components from the root directory
base_path == <<"base">>

\* os.path.normpath of an absolute path: "." dropped, ".." removes the
\* component before it (lexically), ".." at the root stays at the root
RECURSIVE normpath_from(_, _)
normpath_from(done, comps) ==
    IF comps = <<>> THEN done
    ELSE LET c == Head(comps) IN
         IF c = "." THEN normpath_from(done, Tail(comps))
         ELSE IF c = ".."
              THEN normpath_from(IF done = <<>> THEN <<>>
                                 ELSE SubSeq(done, 1, Len(done) - 1), Tail(comps))
              ELSE normpath_from(Append(done, c), Tail(comps))

normpath(p) == normpath_from(<<>>, p)

\* OutputBackendFile._full_path
full_path(path) == normpath(base_path \o path)

\* the locations under the base that the calls of this model can name
Nodes == { <<"base", "d">>, <<"base", "d", "f">>, <<"base", "g">> }

---------------------------------------------------------------------------
(* Filesystem objects                                                      *)

\* what lstat, readlink and a read of the content report of one location
Obj(type, perm, uid, gid, content, target, rdev) ==
    [type |-> type, perm |-> perm, uid |-> uid, gid |-> gid,
     content |-> content, target |-> target, rdev |-> rdev]

\* owner and group a new object gets from the invoking process
ProcOwner == [uid |-> 1000, gid |-> 1000]

Absent == Obj(0, 0, 0, 0, <<>>, <<>>, 0)

\* the directories above the tree: the root directory and the base itself
OuterDir == Obj(S_IFDIR, 493, ProcOwner.uid, ProcOwner.gid, <<>>, <<>>, 0)

Lookup(tree, node) ==
    IF node \in Nodes THEN tree[node]
    ELSE IF node = <<>> \/ node = base_path THEN OuterDir
    ELSE Absent

Exists(tree, node) == Lookup(tree, node).type # 0

Parent(node) == IF node = <<>> THEN <<>> ELSE SubSeq(node, 1, Len(node) - 1)

\* The kernel's path resolution from directory cur: every component but the
\* last must be a directory or a symbolic link to one; the last component's
\* link is followed only when follow is set.  A link's target is resolved
\* from the directory that holds the link.  Answers the location named (which
\* may hold nothing) or the error.
RECURSIVE Walk(_, _, _, _, _)
Walk(tree, cur, comps, follow, depth) ==
    IF depth > MaxFollow THEN [err |-> "ELOOP", node |-> <<>>]
    ELSE IF comps = <<>> THEN [err |-> "", node |-> cur]
    ELSE LET c    == Head(comps)
             rest == Tail(comps)
             n    == Append(cur, c)
             o    == Lookup(tree, n)
         IN  IF c = "." THEN Walk(tree, cur, rest, follow, depth)
             ELSE IF c = ".." THEN Walk(tree, Parent(cur), rest, follow, depth)
             ELSE IF rest = <<>>
                  THEN IF o.type = S_IFLNK /\ follow
                       THEN Walk(tree, cur, o.target, follow, depth + 1)
                       ELSE [err |-> "", node |-> n]
             ELSE IF o.type = 0 THEN [err |-> "ENOENT", node |-> <<>>]
             ELSE IF o.type = S_IFLNK
                  THEN Walk(tree, cur, o.target \o rest, follow, depth + 1)
             ELSE IF o.type = S_IFDIR THEN Walk(tree, n, rest, follow, depth)
             ELSE [err |-> "ENOTDIR", node |-> <<>>]

\* resolution of an absolute path
Resolve(tree, p, follow) == Walk(tree, <<>>, p, follow, 0)

---------------------------------------------------------------------------
(* Outcomes                                                                *)

OK == [cls |-> "", detail |-> ""]
OSError(errno) == [cls |-> "OSError", detail |-> errno]
DirDiffOutputException(msg) == [cls |-> "DirDiffOutputException", detail |-> msg]
\* whatever the reader raises from read
ReaderError == [cls |-> "ReaderError", detail |-> "read"]

\* what the operating system answers a call of this model
NoFault == [kind |-> "none", at |-> 0]
Fault(kind) == [kind |-> kind, at |-> 0]
FaultAt(kind, k) == [kind |-> kind, at |-> k]

---------------------------------------------------------------------------
(* System calls.  Each answers [err, tree, node]: the error ("" if none),  *)
(* the tree after the call, and the location the call acted on.            *)

Sys(err, tree, node) == [err |-> err, tree |-> tree, node |-> node]

\* Create without the test for an object already there
Create_replace(tree, p, obj, exists_errno, fault) ==
    LET w == Resolve(tree, p, FALSE) IN
    IF w.err # "" THEN Sys(w.err, tree, <<>>)
    ELSE IF fault.kind = "denied" THEN Sys("EACCES", tree, w.node)
    ELSE IF w.node \notin Nodes THEN Sys("OUTSIDE", tree, w.node)
    ELSE Sys("", [tree EXCEPT ![w.node] = obj], w.node)

\* mkdir, symlink, mknod and bind create their object only where the path
\* names nothing, without following a link in the last component
Create(tree, p, obj, exists_errno, fault) ==
    LET w == Resolve(tree, p, FALSE) IN
    IF w.err # "" THEN Sys(w.err, tree, <<>>)
    ELSE IF Exists(tree, w.node) THEN Sys(exists_errno, tree, w.node)
    ELSE IF fault.kind = "denied" THEN Sys("EACCES", tree, w.node)
    ELSE IF w.node \notin Nodes THEN Sys("OUTSIDE", tree, w.node)
    ELSE Sys("", [tree EXCEPT ![w.node] = obj], w.node)

\* os.mkdir(path, mode): permission bits masked by the umask
os_mkdir(tree, p, mode, fault) ==
    Create(tree, p,
           Obj(S_IFDIR, MaskOut(S_IMODE(mode), umask, 12),
               ProcOwner.uid, ProcOwner.gid, <<>>, <<>>, 0),
           "EEXIST", fault)

\* os.symlink(src, dst): the target string is stored as given
os_symlink(tree, src, dst, fault) ==
    Create(tree, dst,
           Obj(S_IFLNK, 511, ProcOwner.uid, ProcOwner.gid, <<>>, src, 0),
           "EEXIST", fault)

\* os.mknod(path, mode, device): type from the mode, permission bits masked
\* by the umask
os_mknod(tree, p, mode, device, fault) ==
    Create(tree, p,
           Obj(S_IFMT(mode), MaskOut(S_IMODE(mode), umask, 12),
               ProcOwner.uid, ProcOwner.gid, <<>>, <<>>,
               IF S_IFMT(mode) = S_IFIFO THEN 0 ELSE device),
           "EEXIST", fault)

\* socket.bind(path) of an AF_UNIX socket: creates the socket file with
\* permission bits 0o777 masked by the umask
sock_bind(tree, p, fault) ==
    Create(tree, p,
           Obj(S_IFSOCK, MaskOut(511, umask, 12),
               ProcOwner.uid, ProcOwner.gid, <<>>, <<>>, 0),
           "EADDRINUSE", fault)

\* os.chmod(path, mode): follows a link in the last component
os_chmod(tree, p, mode, fault) ==
    LET w == Resolve(tree, p, TRUE) IN
    IF w.err # "" THEN Sys(w.err, tree, <<>>)
    ELSE IF ~Exists(tree, w.node) THEN Sys("ENOENT", tree, w.node)
    ELSE IF fault.kind = "chmod" THEN Sys("EPERM", tree, w.node)
    ELSE Sys("", [tree EXCEPT ![w.node].perm = mode], w.node)

\* os.chown in place of os.lchown: a link in the last component is followed
os_lchown_follow(tree, p, uid, gid, fault) ==
    LET w == Resolve(tree, p, TRUE) IN
    IF w.err # "" THEN Sys(w.err, tree, <<>>)
    ELSE IF ~Exists(tree, w.node) THEN Sys("ENOENT", tree, w.node)
    ELSE IF fault.kind = "chown" THEN Sys("EPERM", tree, w.node)
    ELSE Sys("", [tree EXCEPT ![w.node].uid = uid, ![w.node].gid = gid], w.node)

\* os.lchown(path, uid, gid): changes the object the path names, a link
\* itself when it names a link
os_lchown(tree, p, uid, gid, fault) ==
    LET w == Resolve(tree, p, FALSE) IN
    IF w.err # "" THEN Sys(w.err, tree, <<>>)
    ELSE IF ~Exists(tree, w.node) THEN Sys("ENOENT", tree, w.node)
    ELSE IF fault.kind = "chown" THEN Sys("EPERM", tree, w.node)
    ELSE Sys("", [tree EXCEPT ![w.node].uid = uid, ![w.node].gid = gid], w.node)

\* os.fchown(fd, uid, gid): fd is the location the descriptor is open on
os_fchown(tree, fd, uid, gid, fault) ==
    IF fault.kind = "chown" THEN Sys("EPERM", tree, fd)
    ELSE Sys("", [tree EXCEPT ![fd].uid = uid, ![fd].gid = gid], fd)

\* os.open(path, O_WRONLY | O_CREAT, mode): follows a link in the last
\* component; creates a regular file (permission bits masked by the umask)
\* where the path names nothing; opens an existing regular file as it is,
\* content and mode kept.  A directory cannot be opened for writing, no
\* driver or peer answers for the devices and sockets of this tree, and the
\* open of a FIFO waits for a reader that never comes ("BLOCKS").
os_open(tree, p, mode, fault) ==
    LET w == Resolve(tree, p, TRUE)
        o == Lookup(tree, w.node)
    IN  IF w.err # "" THEN Sys(w.err, tree, <<>>)
        ELSE IF o.type = S_IFDIR THEN Sys("EISDIR", tree, w.node)
        ELSE IF o.type = S_IFIFO THEN Sys("BLOCKS", tree, w.node)
        ELSE IF o.type \in {S_IFCHR, S_IFBLK, S_IFSOCK}
             THEN Sys("ENXIO", tree, w.node)
        ELSE IF fault.kind = "denied" THEN Sys("EACCES", tree, w.node)
        ELSE IF o.type = S_IFREG THEN Sys("", tree, w.node)
        ELSE IF w.node \notin Nodes THEN Sys("OUTSIDE", tree, w.node)
        ELSE Sys("", [tree EXCEPT ![w.node] =
                         Obj(S_IFREG, MaskOut(S_IMODE(mode), umask, 12),
                             ProcOwner.uid, ProcOwner.gid, <<>>, <<>>, 0)],
                 w.node)

\* a write of data at offset 0 of a file holding old: bytes beyond the data
\* written stay
WriteAtStart(old, data) ==
    data \o SubSeq(old, Len(data) + 1, Len(old))

---------------------------------------------------------------------------
(* OutputBackendFile                                                       *)

\* StatInfo, the fields the backend reads
Stat(mode, owner, rdev) ==
    [mode |-> mode, uid |-> owner.uid, gid |-> owner.gid, rdev |-> rdev]

\* fd = -1: no descriptor is passed
NoFd == <<>>

\* what a method hands back to its caller, and what it leaves behind:
\* the outcome, the tree, the ownership call it made, the location its
\* first system call acted on, and the handles it left open
Ret(err, tree, chown, node, open) ==
    [err |-> err, tree |-> tree, chown |-> chown, node |-> node, open |-> open]

\* _fixup_owners without the test of preserve_owners
fixup_owners_always(tree, full, st, fd, fault) ==
    LET r == IF fd = NoFd
             THEN os_lchown(tree, full, st.uid, st.gid, fault)
             ELSE os_fchown(tree, fd, st.uid, st.gid, fault)
        call == IF fd = NoFd THEN "lchown" ELSE "fchown"
    IN  IF r.err # ""
        THEN [err |-> DirDiffOutputException("failed to chown object"),
              tree |-> tree, call |-> call]
        ELSE [err |-> OK, tree |-> r.tree, call |-> call]

\* _fixup_owners without the except clause: the OSError reaches the caller
fixup_owners_raw(tree, full, st, fd, fault) ==
    IF ~preserve_owners THEN [err |-> OK, tree |-> tree, call |-> "none"]
    ELSE LET r == IF fd = NoFd
                  THEN os_lchown(tree, full, st.uid, st.gid, fault)
                  ELSE os_fchown(tree, fd, st.uid, st.gid, fault)
             call == IF fd = NoFd THEN "lchown" ELSE "fchown"
         IN  IF r.err # ""
             THEN [err |-> OSError(r.err), tree |-> tree, call |-> call]
             ELSE [err |-> OK, tree |-> r.tree, call |-> call]

\* OutputBackendFile._fixup_owners
fixup_owners(tree, full, st, fd, fault) ==
    IF ~preserve_owners THEN [err |-> OK, tree |-> tree, call |-> "none"]
    ELSE LET r == IF fd = NoFd
                  THEN os_lchown(tree, full, st.uid, st.gid, fault)
                  ELSE os_fchown(tree, fd, st.uid, st.gid, fault)
             call == IF fd = NoFd THEN "lchown" ELSE "fchown"
         IN  IF r.err # ""
             THEN [err |-> DirDiffOutputException("failed to chown object"),
                   tree |-> tree, call |-> call]
             ELSE [err |-> OK, tree |-> r.tree, call |-> call]

\* write_dir that removes the directory again when the ownership step fails
do_write_dir_rollback(tree, path, st, fault) ==
    LET full == full_path(path)
        m    == os_mkdir(tree, full, S_IMODE(st.mode), fault)
        o    == fixup_owners(m.tree, full, st, NoFd, fault)
    IN  IF m.err # "" THEN Ret(OSError(m.err), tree, "none", m.node, 0)
        ELSE IF o.err # OK THEN Ret(o.err, tree, o.call, m.node, 0)
        ELSE Ret(o.err, o.tree, o.call, m.node, 0)

\* OutputBackendFile.write_dir
do_write_dir(tree, path, st, fault) ==
    LET full == full_path(path)
        m    == os_mkdir(tree, full, S_IMODE(st.mode), fault)
        o    == fixup_owners(m.tree, full, st, NoFd, fault)
    IN  IF m.err # "" THEN Ret(OSError(m.err), tree, "none", m.node, 0)
        ELSE Ret(o.err, o.tree, o.call, m.node, 0)

\* reader.read(n) of a reader holding data with pos bytes consumed
read(data, pos, n) ==
    SubSeq(data, pos + 1, IF pos + n < Len(data) THEN pos + n ELSE Len(data))

\* the copy with an if for the while: one read, one write
copy_once(data, pos, written, k, fault) ==
    IF fault.kind = "read" /\ fault.at = k
    THEN [written |-> written, err |-> ReaderError]
    ELSE LET chunk == read(data, pos, CHUNK) IN
         IF chunk = <<>> THEN [written |-> written, err |-> OK]
         ELSE IF fault.kind = "write" /\ fault.at = k
              THEN [written |-> written, err |-> OSError("ENOSPC")]
              ELSE [written |-> written \o chunk, err |-> OK]

\* the copy loop of write_file: while data := reader.read(2**16):
\* fout.write(data).  k counts the reads; answers the bytes written and
\* the exception that ended the loop, if one did
RECURSIVE copy(_, _, _, _, _)
copy(data, pos, written, k, fault) ==
    IF fault.kind = "read" /\ fault.at = k
    THEN [written |-> written, err |-> ReaderError]
    ELSE LET chunk == read(data, pos, CHUNK) IN
         IF chunk = <<>> THEN [written |-> written, err |-> OK]
         ELSE IF fault.kind = "write" /\ fault.at = k
              THEN [written |-> written, err |-> OSError("ENOSPC")]
              ELSE copy(data, pos + Len(chunk), written \o chunk, k + 1, fault)

\* OutputBackendFile.write_file; leaving the with block closes fout, which
\* flushes what was written, on every way out
do_write_file(tree, path, st, data, fault) ==
    LET full == full_path(path)
        f    == os_open(tree, full, S_IMODE(st.mode), fault)
        c    == copy(data, 0, <<>>, 1, fault)
        t    == [f.tree EXCEPT ![f.node].content = WriteAtStart(@, c.written)]
        o    == fixup_owners(t, full, st, f.node, fault)
    IN  IF f.err # "" THEN Ret(OSError(f.err), tree, "none", f.node, 0)
        ELSE IF c.err # OK THEN Ret(c.err, t, "none", f.node, 0)
        ELSE Ret(o.err, o.tree, o.call, f.node, 0)

\* OutputBackendFile.write_symlink
do_write_symlink(tree, path, st, linkname, fault) ==
    LET full == full_path(path)
        m    == os_symlink(tree, linkname, full, fault)
        o    == fixup_owners(m.tree, full, st, NoFd, fault)
    IN  IF m.err # "" THEN Ret(OSError(m.err), tree, "none", m.node, 0)
        ELSE Ret(o.err, o.tree, o.call, m.node, 0)

\* write_other that passes over a type it does not know
do_write_other_silent(tree, path, st, fault) ==
    LET full == full_path(path)
        m    == os_mknod(tree, full, st.mode, st.rdev, fault)
        b    == sock_bind(tree, full, fault)
        c    == os_chmod(b.tree, full, S_IMODE(st.mode), fault)
        made == IF S_ISSOCK(st.mode) THEN c ELSE m
        o    == fixup_owners(made.tree, full, st, NoFd, fault)
    IN  IF S_IFMT(st.mode) \in {S_IFCHR, S_IFBLK, S_IFIFO} /\ m.err # ""
        THEN Ret(OSError(m.err), tree, "none", m.node, 0)
        ELSE IF S_ISSOCK(st.mode) /\ b.err # ""
        THEN Ret(OSError(b.err), tree, "none", b.node, 1)
        ELSE IF S_ISSOCK(st.mode) /\ c.err # ""
        THEN Ret(OSError(c.err), b.tree, "none", b.node, 0)
        ELSE IF S_IFMT(st.mode) \notin {S_IFCHR, S_IFBLK, S_IFIFO, S_IFSOCK}
        THEN Ret(OK, tree, "none", <<>>, 0)
        ELSE Ret(o.err, o.tree, o.call, made.node, 0)

\* OutputBackendFile.write_other; a bind that raises leaves sock.close()
\* unreached, and the socket open when the call returns
do_write_other(tree, path, st, fault) ==
    LET full == full_path(path)
        m    == os_mknod(tree, full, st.mode, st.rdev, fault)
        b    == sock_bind(tree, full, fault)
        c    == os_chmod(b.tree, full, S_IMODE(st.mode), fault)
        made == IF S_ISSOCK(st.mode) THEN c ELSE m
        o    == fixup_owners(made.tree, full, st, NoFd, fault)
    IN  IF S_IFMT(st.mode) \in {S_IFCHR, S_IFBLK, S_IFIFO} /\ m.err # ""
        THEN Ret(OSError(m.err), tree, "none", m.node, 0)
        ELSE IF S_ISSOCK(st.mode) /\ b.err # ""
        THEN Ret(OSError(b.err), tree, "none", b.node, 1)
        ELSE IF S_ISSOCK(st.mode) /\ c.err # ""
        THEN Ret(OSError(c.err), b.tree, "none", b.node, 0)
        ELSE IF S_IFMT(st.mode) \notin {S_IFCHR, S_IFBLK, S_IFIFO, S_IFSOCK}
        THEN Ret(DirDiffOutputException("Unsupported file type"),
                 tree, "none", <<>>, 0)
        ELSE Ret(o.err, o.tree, o.call, made.node, 0)

---------------------------------------------------------------------------
(* The calls                                                               *)

NoStat == Stat(0, [uid |-> 0, gid |-> 0], 0)

\* no call has returned, or the caller has gone on from the last one
Idle ==
    [op |-> "idle", path |-> <<>>, st |-> NoStat, data |-> <<>>,
     linkname |-> <<>>, err |-> OK, chown |-> "none", node |-> <<>>,
     pre |-> Absent]

\* the record of a call: its arguments, its outcome, the ownership call it
\* made, the location its first system call acted on and what was there
Call(op, path, st, data, linkname, r) ==
    [op |-> op, path |-> path, st |-> st, data |-> data, linkname |-> linkname,
     err |-> r.err, chown |-> r.chown, node |-> r.node,
     pre |-> Lookup(fs, r.node)]

\* a call is made when the caller is ready for it, and returns (the open of
\* a FIFO never does)
Return(op, path, st, data, linkname, r) ==
    /\ last = Idle
    /\ r.err.detail # "BLOCKS"
    /\ fs' = r.tree
    /\ handles' = r.open
    /\ last' = Call(op, path, st, data, linkname, r)
    /\ UNCHANGED <<preserve_owners, umask>>

write_dir(path, st, fault) ==
    Return("write_dir", path, st, <<>>, <<>>, do_write_dir(fs, path, st, fault))

write_file(path, st, data, fault) ==
    Return("write_file", path, st, data, <<>>,
           do_write_file(fs, path, st, data, fault))

write_symlink(path, st, linkname, fault) ==
    Return("write_symlink", path, st, <<>>, linkname,
           do_write_symlink(fs, path, st, linkname, fault))

write_other(path, st, fault) ==
    Return("write_other", path, st, <<>>, <<>>, do_write_other(fs, path, st, fault))

\* the caller takes the outcome of the call and goes on to the next object;
\* the backend keeps nothing of the call
Continue ==
    /\ last # Idle
    /\ last' = Idle
    /\ handles' = 0
    /\ UNCHANGED <<fs, preserve_owners, umask>>

---------------------------------------------------------------------------
(* Inputs                                                                  *)

\* relative paths handed to the backend; the last one needs normalising
RelPaths == { <<"d">>, <<"d", "f">>, <<"d", "..", "g">> }

\* permission bits 0o644 and 0o777, and 0o600 for special files
Perms == {420, 511}
OtherPerms == {384}

\* the process's umask: none, or the usual 0o022
Umasks == {0, 18}

\* uid and gid of the objects written, and of the links
Owner == [uid |-> 1234, gid |-> 4567]
LinkOwner == [uid |-> 123, gid |-> 543]

\* makedev(12, 7)
Rdev == 12 * 256 + 7

\* type bits write_other is called with: the four it supports, a regular
\* file and none
OtherTypes == {S_IFCHR, S_IFBLK, S_IFIFO, S_IFSOCK, S_IFREG, 0}

Stats(types, perms, owner) ==
    { Stat(t + p, owner, IF t \in {S_IFCHR, S_IFBLK} THEN Rdev ELSE 0) :
        t \in types, p \in perms }

\* link targets: a file under the base, and a path through a directory that
\* never exists, which names nothing although its ".." segment leads back
Linknames == { <<"d", "f">>, <<"x", "..", "d", "f">> }

\* content the readers of the main specification deliver
Datas == { <<1>> }

\* contents of the copy specification: lengths 0 .. MaxLen, each byte its
\* position, in two colours
Count(n, colour) == [i \in 1 .. n |-> colour + i]
CopyDatas == { Count(n, colour) : n \in 0 .. MaxLen, colour \in {0, 10} }

\* the reads and writes of a copy of data
Reads(data) == 1 .. ((Len(data) + CHUNK - 1) \div CHUNK + 1)
Writes(data) == 1 .. ((Len(data) + CHUNK - 1) \div CHUNK)

\* what the operating system may answer: the request that makes the object
\* denied, the chown refused (when one is made)
MakeFaults ==
    {NoFault, Fault("denied")}
        \cup (IF preserve_owners THEN {Fault("chown")} ELSE {})
CopyFaults(data) ==
    MakeFaults \cup { FaultAt("read", k) : k \in Reads(data) }
               \cup { FaultAt("write", k) : k \in Writes(data) }

---------------------------------------------------------------------------
(* Specification                                                           *)

Init ==
    /\ fs = [n \in Nodes |-> Absent]
    /\ preserve_owners \in BOOLEAN
    /\ umask \in Umasks
    /\ handles = 0
    /\ last = Idle

WriteDir ==
    \E path \in RelPaths, st \in Stats({S_IFDIR}, Perms, Owner) :
        \E fault \in MakeFaults : write_dir(path, st, fault)

WriteFile ==
    \E path \in RelPaths, st \in Stats({S_IFREG}, Perms, Owner), data \in Datas :
        \E fault \in CopyFaults(data) : write_file(path, st, data, fault)

WriteSymlink ==
    \E path \in RelPaths, st \in Stats({S_IFLNK}, {511}, LinkOwner),
       linkname \in Linknames :
        \E fault \in MakeFaults : write_symlink(path, st, linkname, fault)

WriteOther ==
    \E path \in RelPaths, st \in Stats(OtherTypes, OtherPerms, Owner) :
        \E fault \in MakeFaults \cup {Fault("chmod")} :
            write_other(path, st, fault)

Next == WriteDir \/ WriteFile \/ WriteSymlink \/ WriteOther \/ Continue

Spec == Init /\ [][Next]_vars

\* The copy specification: the same backend, with readers of every length
\* writing at one path, and the other operations making there the objects
\* a file can meet.
CopyPaths == { <<"d", "..", "g">> }

CopyWriteDir ==
    \E path \in CopyPaths, st \in Stats({S_IFDIR}, {420}, Owner) :
        \E fault \in MakeFaults : write_dir(path, st, fault)

CopyWriteFile ==
    \E path \in CopyPaths, st \in Stats({S_IFREG}, {420}, Owner),
       data \in CopyDatas :
        \E fault \in CopyFaults(data) : write_file(path, st, data, fault)

CopyWriteSymlink ==
    \E path \in CopyPaths, st \in Stats({S_IFLNK}, {511}, LinkOwner),
       linkname \in Linknames :
        \E fault \in MakeFaults : write_symlink(path, st, linkname, fault)

CopyWriteOther ==
    \E path \in CopyPaths, st \in Stats({S_IFSOCK}, OtherPerms, Owner) :
        \E fault \in MakeFaults : write_other(path, st, fault)

NextCopy ==
    CopyWriteDir \/ CopyWriteFile \/ CopyWriteSymlink \/ CopyWriteOther \/ Continue

SpecCopy == Init /\ [][NextCopy]_vars

\* every object of the tree lies at one of the model's locations
Closed == last.err.detail # "OUTSIDE"

---------------------------------------------------------------------------
(* Properties                                                              *)

Returned == last.op # "idle"
Succeeded == Returned /\ last.err = OK
Failed == Returned /\ last.err # OK

\* the resolved path of the last call
Here == full_path(last.path)

\* failures the operating system or the reader injects into a call whose
\* path is free and whose parent exists
Injected ==
    { OSError("EACCES"), OSError("ENOSPC"), OSError("EPERM"), ReaderError,
      DirDiffOutputException("failed to chown object") }

\* C1: write_file on a path that names nothing, in an existing directory,
\* fails only when the system or the reader fails it, and on success leaves
\* there a regular file holding exactly the bytes the reader delivered, for
\* every length from none to several chunks.
C1_RoundTrip ==
    (last.op = "write_file" /\ last.node = Here /\ last.pre = Absent) =>
        /\ Failed => last.err \in Injected
        /\ Succeeded => /\ fs[Here].type = S_IFREG
                        /\ fs[Here].content = last.data

C1_Witness ==
    /\ last.op = "write_file" /\ last.node = Here /\ last.pre = Absent
    /\ Succeeded
    /\ Len(last.data) > 2 * CHUNK
    /\ fs[Here].content = last.data

\* C2: after a successful write_file on a path where a regular file exists,
\* the file holds exactly the bytes the reader delivered.
C2_Truncates ==
    (last.op = "write_file" /\ Succeeded /\ last.pre.type = S_IFREG) =>
        fs[last.node].content = last.data

\* C3: after a successful write_dir, write_file or write_other the object at
\* the resolved path has the type bits and the permission bits of st.mode.
C3_ModeFidelity ==
    (Succeeded /\ last.op \in {"write_dir", "write_file", "write_other"}) =>
        /\ fs[Here].type = S_IFMT(last.st.mode)
        /\ fs[Here].perm = S_IMODE(last.st.mode)

\* C4: with preserve_owners set, the object a successful call made or wrote
\* has the owner and group of st; with it unset no call changes an owner and
\* every object has the owner and group of the process.
C4_Ownership ==
    /\ (preserve_owners /\ Succeeded) =>
           /\ fs[last.node].uid = last.st.uid
           /\ fs[last.node].gid = last.st.gid
    /\ ~preserve_owners =>
           /\ last.chown = "none"
           /\ \A n \in Nodes : Exists(fs, n) =>
                  /\ fs[n].uid = ProcOwner.uid
                  /\ fs[n].gid = ProcOwner.gid

C4_Witness ==
    /\ preserve_owners /\ Succeeded /\ last.op = "write_file"
    /\ last.chown = "fchown"
    /\ fs[last.node].uid = Owner.uid /\ fs[last.node].gid = Owner.gid
    /\ Owner # ProcOwner

\* C5: write_other with type bits that are none of character device, block
\* device, FIFO and socket fails with the unsupported-type error, makes no
\* ownership call and leaves the tree as it was.
C5_Unsupported ==
    [][ (last'.op = "write_other"
         /\ S_IFMT(last'.st.mode) \notin {S_IFCHR, S_IFBLK, S_IFIFO, S_IFSOCK}) =>
            /\ last'.err = DirDiffOutputException("Unsupported file type")
            /\ last'.chown = "none"
            /\ fs' = fs ]_vars

C5_Witness ==
    /\ last.op = "write_other"
    /\ S_IFMT(last.st.mode) = S_IFREG
    /\ last.err = DirDiffOutputException("Unsupported file type")
    /\ \E n \in Nodes : Exists(fs, n)

\* C6 as claimed: a call that fails on a path that named nothing leaves
\* nothing there.
C6_FailedLeavesNothing ==
    (Failed /\ last.node \in Nodes /\ last.pre = Absent) =>
        ~Exists(fs, last.node)

\* failures of the system call that makes or opens the object
EarlyErrors ==
    { OSError(e) : e \in {"EEXIST", "EADDRINUSE", "ENOENT", "ENOTDIR", "ELOOP",
                          "EACCES", "EISDIR", "ENXIO"} }
        \cup {DirDiffOutputException("Unsupported file type")}

\* C6 amended: a failed call changes nothing but the one location it made
\* or opened its object at; when it fails in making or opening it, or on
\* the type, the tree is as before; when it fails later (ownership step,
\* reader or write during the copy, chmod of the socket) the object stays.
C6_FailedTouchesOnlyItsOwn ==
    [][ (last' # Idle /\ last'.err # OK) =>
            /\ \A n \in Nodes \ {last'.node} : fs'[n] = fs[n]
            /\ last'.err \in EarlyErrors => fs' = fs
            /\ last'.err \notin EarlyErrors =>
                   /\ last'.node \in Nodes
                   /\ Exists(fs', last'.node) ]_vars

C6_Witness ==
    /\ Failed /\ last.op = "write_file"
    /\ last.err = ReaderError
    /\ last.pre = Absent
    /\ fs[last.node].type = S_IFREG
    /\ \E n \in Nodes \ {last.node} : Exists(fs, n)

\* C7: no handle a call opened is open when the call returns.
C7_NoHandleOutlives == handles = 0

\* the class of the ownership failure
OwnershipKind == DirDiffOutputException("failed to chown object").cls

C9_SymlinkOnly ==
    [][ (preserve_owners /\ last'.op = "write_symlink") =>
            /\ last'.err = OK =>
                   /\ last'.node = full_path(last'.path)
                   /\ fs'[last'.node].type = S_IFLNK
                   /\ fs'[last'.node].target = last'.linkname
                   /\ fs'[last'.node].uid = last'.st.uid
                   /\ fs'[last'.node].gid = last'.st.gid
                   /\ \A n \in Nodes \ {last'.node} : fs'[n] = fs[n]
            /\ last'.err # OK =>
                   \/ last'.err \in Injected
                   \/ Resolve(fs, full_path(last'.path), FALSE).err # ""
                   \/ Exists(fs, Resolve(fs, full_path(last'.path), FALSE).node)
      ]_vars

\* the location a link's target names, when it names an object
Pointee(n) ==
    LET w == Walk(fs, Parent(n), fs[n].target, TRUE, 0) IN
    IF w.err = "" /\ w.node \in Nodes /\ Exists(fs, w.node) THEN w.node ELSE <<>>

C9_Witness ==
    /\ preserve_owners /\ Succeeded /\ last.op = "write_symlink"
    /\ last.linkname = <<"d", "f">>
    /\ Pointee(last.node) # <<>>
    /\ fs[Pointee(last.node)].uid = Owner.uid
    /\ fs[last.node].uid = LinkOwner.uid

\* C10: write_dir, write_symlink and write_other (of a supported type) on a
\* path that names an object, or whose parent is no directory, fail with
\* an OSError, make no ownership call and leave the tree as it was.
C10_Exclusive ==
    [][ (/\ last'.op \in {"write_dir", "write_symlink", "write_other"}
         /\ last'.op = "write_other" =>
                S_IFMT(last'.st.mode) \in {S_IFCHR, S_IFBLK, S_IFIFO, S_IFSOCK}
         /\ LET w == Resolve(fs, full_path(last'.path), FALSE)
            IN  w.err # "" \/ Exists(fs, w.node)) =>
            /\ last'.err.cls = "OSError"
            /\ last'.chown = "none"
            /\ fs' = fs ]_vars

C10_Witness ==
    /\ last.op = "write_dir"
    /\ last.err = OSError("EEXIST")
    /\ last.pre.type = S_IFLNK
    /\ fs[last.node] = last.pre

====
